---- MODULE Spec2Model ----
(***************************************************************************)
(* Booking engine of the cinema booking bot (src/src/db.py).               *)
(*                                                                         *)
(* The storage is one SQLite file with two tables, screenings and          *)
(* bookings.  Every engine function opens its own connection (get_conn),   *)
(* runs a few statements and closes it.  Four specifications are given:    *)
(*                                                                         *)
(*   Spec      every engine call runs to completion before the next one    *)
(*             starts (one action per function);                           *)
(*   SpecConc  several callers, each on its own connection, whose          *)
(*             statements interleave (one action per statement):           *)
(*             create_booking and cancel_booking;                          *)
(*   SpecAdmin the same for create_booking, delete_screening and           *)
(*             add_screening;                                              *)
(*   SpecList  the same for get_screenings_with_stats of one caller next   *)
(*             to the bookings, cancels and deletes of the others.         *)
(*                                                                         *)
(* All are built from the same statement operators below.                  *)
(* The display columns username and full_name of a booking are written     *)
(* once and never read by any condition; they are left out of the rows.    *)
(***************************************************************************)
EXTENDS Integers, FiniteSets, Sequences, TLC

\* ------------------------------------------------------------------ bounds
NumUsers == 2          \* user ids 1..NumUsers
MaxScreeningId == 2    \* screening ids 1..MaxScreeningId
NumSeed == 1           \* the first NumSeed rows of screenings_seed are used
SeedCapacity == 1      \* capacity of a seed screening (24 in the source)
MaxCapacity == 1       \* capacities typed by an admin: -1..MaxCapacity
MaxTime == 2           \* timestamps 1..MaxTime
MaxBookings == 2       \* booking rows in the table
NumProcs == 2          \* concurrent callers of SpecConc

Users == 1..NumUsers
ScreeningIds == 1..MaxScreeningId
BookingIds == 1..(MaxBookings + 1)
Times == 1..MaxTime
Capacities == (0 - 1)..MaxCapacity
Procs == 1..NumProcs

\* canceled_at TEXT (nullable): NULL is 0, a timestamp is in Times
NULL == 0

\* ------------------------------------------------------------------ state
VARIABLES
    screenings,   \* table screenings: id -> [date, title, capacity]
    bookings,     \* table bookings: set of rows [id, screening_id, user_id,
                  \*                              created_at, canceled_at]
    ret,          \* Spec: the last engine call and what it returned
    proc,         \* SpecConc: every caller's position, arguments and locals
    txn           \* SpecConc: the open write transaction, if any

vars == <<screenings, bookings, ret, proc, txn>>

\* ------------------------------------------------------------------ schema
\* screenings_seed, the rows init_db inserts
SeedDates == <<"23.11", "30.11", "07.12", "14.12", "21.12", "28.12">>
SeedTitles == <<"Milaya Frensis", "Ona", "Pered rassvetom", "Ameli",
                "Vkus vishni", "Parizh, ya lyublyu tebya">>
SeedIds == 1..NumSeed
screenings_seed(i) ==
    [date |-> SeedDates[i], title |-> SeedTitles[i], capacity |-> SeedCapacity]

\* what an admin types in /add_show and /edit_show
AdminDates == {"10.03"}
AdminTitles == {"Film X"}

Max(S) == CHOOSE x \in S : \A y \in S : y <= x

\* ------------------------------------------------------------ statements
\* SELECT capacity, date, title FROM screenings WHERE id = ?
SelectScreening(sc, s) == IF s \in DOMAIN sc THEN {sc[s]} ELSE {}

\* SELECT id FROM bookings
\*  WHERE screening_id = ? AND user_id = ? AND canceled_at IS NULL
SelectActiveBookingNone(bk, s, u) == {}
SelectActiveBooking(bk, s, u) ==
    {b \in bk : b.screening_id = s /\ b.user_id = u /\ b.canceled_at = NULL}

\* SELECT COUNT(*) FROM bookings WHERE screening_id = ? AND canceled_at IS NULL
CountActiveAnyStatus(bk, s) ==
    Cardinality({b \in bk : b.screening_id = s})
CountActive(bk, s) ==
    Cardinality({b \in bk : b.screening_id = s /\ b.canceled_at = NULL})

\* if booked >= capacity: return "full"
IsFullOffByOne(booked, capacity) == booked > capacity
IsFull(booked, capacity) == booked >= capacity

\* UNIQUE (screening_id, user_id): the INSERT raises sqlite3.IntegrityError
\* when any row, active or canceled, already has the pair
UniqueViolationNever(bk, s, u) == FALSE
UniqueViolationActiveOnly(bk, s, u) ==
    \E b \in bk : b.screening_id = s /\ b.user_id = u /\ b.canceled_at = NULL
UniqueViolation(bk, s, u) ==
    \E b \in bk : b.screening_id = s /\ b.user_id = u

\* id INTEGER PRIMARY KEY AUTOINCREMENT: one more than the largest id used;
\* booking rows are never deleted, so that is the largest id in the table
NextBookingId(bk) == IF bk = {} THEN 1 ELSE Max({b.id : b \in bk}) + 1

\* INSERT INTO bookings (...) VALUES (?, ?, ?, ?, ?, NULL)
InsertBooking(bk, s, u, now) ==
    bk \cup {[id |-> NextBookingId(bk), screening_id |-> s, user_id |-> u,
              created_at |-> now, canceled_at |-> NULL]}

\* UPDATE bookings SET canceled_at = ?
\*  WHERE id = ? AND user_id = ? AND canceled_at IS NULL : the rows it matches
CancelMatchAnyUser(bk, b, u) ==
    {r \in bk : r.id = b /\ r.canceled_at = NULL}
CancelMatchAnyStatus(bk, b, u) ==
    {r \in bk : r.id = b /\ r.user_id = u}
CancelMatch(bk, b, u) ==
    {r \in bk : r.id = b /\ r.user_id = u /\ r.canceled_at = NULL}

\* ... and the table after it
UpdateCanceledDelete(bk, b, u, now) == bk \ CancelMatch(bk, b, u)
UpdateCanceled(bk, b, u, now) ==
    LET hit == CancelMatch(bk, b, u)
    IN  (bk \ hit) \cup {[r EXCEPT !.canceled_at = now] : r \in hit}

\* SELECT COUNT(*) FROM bookings WHERE screening_id = ?
CountBookingsActiveOnly(bk, s) == CountActive(bk, s)
CountBookings(bk, s) == Cardinality({b \in bk : b.screening_id = s})

\* DELETE FROM screenings WHERE id = ?
DeleteScreeningAll(sc, s) == <<>>
DeleteScreening(sc, s) == [i \in (DOMAIN sc) \ {s} |-> sc[i]]

\* id INTEGER PRIMARY KEY (no AUTOINCREMENT): an INSERT without id takes one
\* more than the largest id now in the table
NextScreeningId(sc) == IF DOMAIN sc = {} THEN 1 ELSE Max(DOMAIN sc) + 1

\* INSERT INTO screenings (date, title, capacity) VALUES (?, ?, ?)
InsertScreening(sc, d, t, c) ==
    [i \in (DOMAIN sc) \cup {NextScreeningId(sc)} |->
        IF i \in DOMAIN sc THEN sc[i]
        ELSE [date |-> d, title |-> t, capacity |-> c]]

\* UPDATE screenings SET date = ?, title = ?, capacity = ? WHERE id = ?
UpdateScreening(sc, s, d, t, c) ==
    [i \in DOMAIN sc |->
        IF i = s THEN [date |-> d, title |-> t, capacity |-> c] ELSE sc[i]]

\* INSERT OR IGNORE INTO screenings (id, date, title, capacity): executemany
\* over screenings_seed
InsertSeedOrReplace(sc) ==
    [i \in (DOMAIN sc) \cup SeedIds |->
        IF i \in SeedIds THEN screenings_seed(i) ELSE sc[i]]
InsertSeedIfEmpty(sc) == IF DOMAIN sc = {} THEN InsertSeedOrReplace(sc) ELSE sc
InsertSeedOrIgnore(sc) ==
    [i \in (DOMAIN sc) \cup SeedIds |->
        IF i \in DOMAIN sc THEN sc[i] ELSE screenings_seed(i)]

Min(S) == CHOOSE x \in S : \A y \in S : x <= y

\* ORDER BY id: the ids of S in ascending order
RECURSIVE OrderById(_)
OrderById(S) ==
    IF S = {} THEN <<>> ELSE <<Min(S)>> \o OrderById(S \ {Min(S)})

\* SELECT id, date, title, capacity FROM screenings ORDER BY id; fetchall()
SelectScreeningsUnordered(sc) ==
    LET ids == OrderById(DOMAIN sc)
        n == Len(ids)
    IN  [i \in 1..n |->
            [id |-> ids[n + 1 - i], date |-> sc[ids[n + 1 - i]].date,
             title |-> sc[ids[n + 1 - i]].title,
             capacity |-> sc[ids[n + 1 - i]].capacity]]
SelectScreenings(sc) ==
    LET ids == OrderById(DOMAIN sc)
    IN  [i \in 1..Len(ids) |->
            [id |-> ids[i], date |-> sc[ids[i]].date,
             title |-> sc[ids[i]].title, capacity |-> sc[ids[i]].capacity]]

\* ScreeningInfo(id=screening_id, date=date, title=title, capacity=capacity,
\*               booked=booked)
ScreeningInfo(row, booked) ==
    [id |-> row.id, date |-> row.date, title |-> row.title,
     capacity |-> row.capacity, booked |-> booked]

\* ScreeningInfo.free_places: max(self.capacity - self.booked, 0)
free_places_unclamped(info) == info.capacity - info.booked
free_places(info) ==
    IF info.capacity - info.booked > 0 THEN info.capacity - info.booked ELSE 0

\* what get_screenings_with_stats returns on the tables sc, bk
get_screenings_with_stats_result(sc, bk) ==
    LET rows == SelectScreenings(sc)
    IN  [i \in 1..Len(rows) |-> ScreeningInfo(rows[i], CountActive(bk, rows[i].id))]

\* FROM bookings b JOIN screenings s ON s.id = b.screening_id
\* WHERE b.canceled_at IS NULL
JoinAnyStatus(sc, bk) == {b \in bk : b.screening_id \in DOMAIN sc}
JoinActive(sc, bk) ==
    {b \in bk : b.screening_id \in DOMAIN sc /\ b.canceled_at = NULL}

\* ORDER BY s.id, b.created_at: every order of the rows S the engine may
\* deliver (rows equal in both keys come in any order)
OrderByScreeningCreated(S) ==
    {f \in [1..Cardinality(S) -> S] :
        \A i \in 1..Cardinality(S) : \A j \in 1..Cardinality(S) :
            i < j => /\ f[i] # f[j]
                     /\ \/ f[i].screening_id < f[j].screening_id
                        \/ /\ f[i].screening_id = f[j].screening_id
                           /\ f[i].created_at <= f[j].created_at}

\* SELECT s.date, s.title, b.user_id, b.created_at (username and full_name
\* are not part of the model's booking rows)
ActiveBookingTuple(sc, b) ==
    [date |-> sc[b.screening_id].date, title |-> sc[b.screening_id].title,
     user_id |-> b.user_id, created_at |-> b.created_at]

\* --------------------------------------------------------------- Spec
NoCall == [op |-> "none", id |-> 0, user |-> 0, res |-> "none", val |-> 0,
           rows |-> <<>>, gone |-> {}]
\* The seed ids for which delete_screening has returned "ok" since the
\* init_db call before the last one (for the properties only; no statement
\* reads it): after an init_db call, the ones deleted before that call.
SeedsGone(o, i, r) ==
    LET before == IF ret.op = "init_db" THEN {} ELSE ret.gone
    IN  IF o = "delete_screening" /\ r = "ok" /\ i \in SeedIds
        THEN before \cup {i} ELSE before
Called(o, i, u, r, v) ==
    [op |-> o, id |-> i, user |-> u, res |-> r, val |-> v, rows |-> <<>>,
     gone |-> SeedsGone(o, i, r)]
\* a call that returns a list
Listed(o, rows) ==
    [op |-> o, id |-> 0, user |-> 0, res |-> "list", val |-> 0, rows |-> rows,
     gone |-> SeedsGone(o, 0, "list")]

IdleProc == [pc |-> "idle", op |-> "none", id |-> 0, user |-> 0,
             capacity |-> 0, booked |-> 0, res |-> "none",
             free0 |-> 0, overlap |-> {},
             date |-> "", title |-> "", rows |-> <<>>, out |-> <<>>,
             seen |-> {}]
NoTxn == [owner |-> 0, bookings |-> {}, screenings |-> <<>>]

Init ==
    /\ screenings = InsertSeedOrIgnore(<<>>)
    /\ bookings = {}
    /\ ret = NoCall
    /\ proc = [p \in Procs |-> IdleProc]
    /\ txn = NoTxn

\* what create_booking returns on the tables sc, bk
create_booking_result(sc, bk, s, u) ==
    IF SelectScreening(sc, s) = {} THEN "no_screening"
    ELSE IF SelectActiveBooking(bk, s, u) # {} THEN "already"
    ELSE IF IsFull(CountActive(bk, s), sc[s].capacity) THEN "full"
    ELSE IF UniqueViolation(bk, s, u) THEN "IntegrityError"
    ELSE "ok"

create_booking_stored_counter(s, u, now) ==
    LET r == create_booking_result(screenings, bookings, s, u)
    IN  /\ r = "ok" => Cardinality(bookings) < MaxBookings
        /\ bookings' = IF r = "ok" THEN InsertBooking(bookings, s, u, now)
                       ELSE bookings
        /\ screenings' = IF r = "ok"
                         THEN [screenings EXCEPT ![s].capacity = @ - 1]
                         ELSE screenings
        /\ ret' = Called("create_booking", s, u, r, 0)
        /\ UNCHANGED <<proc, txn>>

create_booking(s, u, now) ==
    LET r == create_booking_result(screenings, bookings, s, u)
    IN  /\ r = "ok" => Cardinality(bookings) < MaxBookings
        /\ bookings' = IF r = "ok" THEN InsertBooking(bookings, s, u, now)
                       ELSE bookings
        /\ ret' = Called("create_booking", s, u, r, 0)
        /\ UNCHANGED <<screenings, proc, txn>>

cancel_booking(b, u, now) ==
    /\ bookings' = UpdateCanceled(bookings, b, u, now)
    /\ ret' = Called("cancel_booking", b, u,
                     IF Cardinality(CancelMatch(bookings, b, u)) > 0
                     THEN "True" ELSE "False", 0)
    /\ UNCHANGED <<screenings, proc, txn>>

add_screening(d, t, c) ==
    /\ NextScreeningId(screenings) <= MaxScreeningId
    /\ screenings' = InsertScreening(screenings, d, t, c)
    /\ ret' = Called("add_screening", 0, 0, "ok", NextScreeningId(screenings))
    /\ UNCHANGED <<bookings, proc, txn>>

update_screening(s, d, t, c) ==
    /\ screenings' = UpdateScreening(screenings, s, d, t, c)
    /\ ret' = Called("update_screening", s, 0,
                     IF s \in DOMAIN screenings THEN "True" ELSE "False", 0)
    /\ UNCHANGED <<bookings, proc, txn>>

delete_screening(s) ==
    /\ IF CountBookings(bookings, s) > 0
       THEN /\ ret' = Called("delete_screening", s, 0, "has_bookings", 0)
            /\ UNCHANGED screenings
       ELSE /\ screenings' = DeleteScreening(screenings, s)
            /\ ret' = Called("delete_screening", s, 0,
                             IF s \in DOMAIN screenings THEN "ok"
                             ELSE "not_found", 0)
    /\ UNCHANGED <<bookings, proc, txn>>

get_screenings_with_stats ==
    /\ ret' = Listed("get_screenings_with_stats",
                     get_screenings_with_stats_result(screenings, bookings))
    /\ UNCHANGED <<screenings, bookings, proc, txn>>

get_all_active_bookings ==
    /\ \E f \in OrderByScreeningCreated(JoinActive(screenings, bookings)) :
          ret' = Listed("get_all_active_bookings",
                        [i \in 1..Len(f) |-> ActiveBookingTuple(screenings, f[i])])
    /\ UNCHANGED <<screenings, bookings, proc, txn>>

init_db ==
    /\ screenings' = InsertSeedOrIgnore(screenings)
    /\ ret' = Called("init_db", 0, 0, "none", 0)
    /\ UNCHANGED <<bookings, proc, txn>>

Next ==
    \/ \E s \in ScreeningIds, u \in Users, now \in Times :
          create_booking(s, u, now)
    \/ \E b \in BookingIds, u \in Users, now \in Times :
          cancel_booking(b, u, now)
    \/ \E d \in AdminDates, t \in AdminTitles, c \in Capacities :
          add_screening(d, t, c)
    \/ \E s \in ScreeningIds, d \in AdminDates, t \in AdminTitles,
          c \in Capacities : update_screening(s, d, t, c)
    \/ \E s \in ScreeningIds : delete_screening(s)
    \/ get_screenings_with_stats
    \/ get_all_active_bookings
    \/ init_db

Spec == Init /\ [][Next]_vars

\* ------------------------------------------------------------ SpecConc
\* Every caller p has its own connection (get_conn).  A SELECT runs in
\* autocommit mode and reads the committed tables.  The sqlite3 module opens
\* a transaction before an INSERT or UPDATE; the statement takes the write
\* lock of the database file, its changes stay private to the connection
\* until conn.commit(), and a connection that finds the lock taken waits
\* (connect's default timeout) and then raises sqlite3.OperationalError.
Running(p) == proc[p].pc \notin {"idle", "done"}

Done(p, r) == [proc EXCEPT ![p].pc = "done", ![p].res = r]

\* The listing of one committed state of the tables sc, bk (for the
\* properties only): per screening in id order, its columns and the number
\* of its rows with canceled_at null.
ListingOfState(sc, bk) ==
    LET ids == OrderById(DOMAIN sc)
    IN  [i \in 1..Len(ids) |->
            [id |-> ids[i], date |-> sc[ids[i]].date,
             title |-> sc[ids[i]].title, capacity |-> sc[ids[i]].capacity,
             booked |-> Cardinality({b \in bk : /\ b.screening_id = ids[i]
                                                /\ b.canceled_at = NULL})]]

\* A commit makes the tables sc, bk the committed state: every
\* get_screenings_with_stats call still under way records that this state
\* existed during the call (for the properties only; no statement reads it).
Observe(pr, sc, bk) ==
    [q \in Procs |->
        IF pr[q].op = "get_screenings_with_stats" /\ pr[q].pc = "gs_count"
        THEN [pr[q] EXCEPT !.seen = @ \cup {ListingOfState(sc, bk)}]
        ELSE pr[q]]

\* free seats of screening s in the committed tables (recorded at call time
\* for the properties only; no statement reads it)
FreeSeats(s) ==
    IF s \in DOMAIN screenings
    THEN screenings[s].capacity - CountActive(bookings, s)
    ELSE 0

\* create_booking is called; SELECT capacity, date, title FROM screenings
cb_select_screening(p, s, u) ==
    /\ proc[p].pc = "idle"
    /\ LET row == SelectScreening(screenings, s)
           called == [IdleProc EXCEPT !.op = "create_booking", !.id = s,
                         !.user = u, !.free0 = FreeSeats(s),
                         !.overlap = {q \in Procs \ {p} : Running(q)}]
       IN  proc' = [proc EXCEPT ![p] =
                IF row = {}
                THEN [called EXCEPT !.pc = "done", !.res = "no_screening"]
                ELSE [called EXCEPT !.pc = "cb_already",
                                    !.capacity = screenings[s].capacity]]
    /\ UNCHANGED <<screenings, bookings, ret, txn>>

\* SELECT id FROM bookings WHERE ... AND canceled_at IS NULL
cb_select_active(p) ==
    /\ proc[p].pc = "cb_already"
    /\ proc' = IF SelectActiveBooking(bookings, proc[p].id, proc[p].user) # {}
               THEN Done(p, "already")
               ELSE [proc EXCEPT ![p].pc = "cb_count"]
    /\ UNCHANGED <<screenings, bookings, ret, txn>>

\* SELECT COUNT(*) ...; if booked >= capacity: return "full"
cb_count(p) ==
    /\ proc[p].pc = "cb_count"
    /\ LET booked == CountActive(bookings, proc[p].id)
       IN  proc' = IF IsFull(booked, proc[p].capacity)
                   THEN Done(p, "full")
                   ELSE [proc EXCEPT ![p].pc = "cb_insert",
                                     ![p].booked = booked]
    /\ UNCHANGED <<screenings, bookings, ret, txn>>

\* INSERT INTO bookings: the row goes into the connection's transaction, or
\* the UNIQUE constraint raises and closing the connection rolls back
cb_insert(p, now) ==
    /\ proc[p].pc = "cb_insert"
    /\ txn.owner = 0
    /\ IF UniqueViolation(bookings, proc[p].id, proc[p].user)
       THEN /\ proc' = Done(p, "IntegrityError")
            /\ UNCHANGED txn
       ELSE /\ Cardinality(bookings) < MaxBookings
            /\ txn' = [owner |-> p,
                       bookings |-> InsertBooking(bookings, proc[p].id,
                                                  proc[p].user, now),
                       screenings |-> screenings]
            /\ proc' = [proc EXCEPT ![p].pc = "cb_commit"]
    /\ UNCHANGED <<screenings, bookings, ret>>

\* the write lock stayed with another connection for the whole timeout
write_busy(p) ==
    /\ proc[p].pc \in {"cb_insert", "cn_update", "ds_delete", "as_insert"}
    /\ txn.owner \notin {0, p}
    /\ proc' = Done(p, "OperationalError")
    /\ UNCHANGED <<screenings, bookings, ret, txn>>

\* conn.commit(); return "ok"
cb_commit(p) ==
    /\ proc[p].pc = "cb_commit"
    /\ txn.owner = p
    /\ bookings' = txn.bookings
    /\ txn' = NoTxn
    /\ proc' = Observe(Done(p, "ok"), screenings, txn.bookings)
    /\ UNCHANGED <<screenings, ret>>

\* cancel_booking is called
cn_call(p, b, u) ==
    /\ proc[p].pc = "idle"
    /\ proc' = [proc EXCEPT ![p] =
                 [IdleProc EXCEPT !.pc = "cn_update", !.op = "cancel_booking",
                     !.id = b, !.user = u,
                     !.overlap = {q \in Procs \ {p} : Running(q)}]]
    /\ UNCHANGED <<screenings, bookings, ret, txn>>

\* UPDATE bookings SET canceled_at = ? WHERE ...; cur.rowcount in booked
cn_update(p, now) ==
    /\ proc[p].pc = "cn_update"
    /\ txn.owner = 0
    /\ txn' = [owner |-> p,
               bookings |-> UpdateCanceled(bookings, proc[p].id,
                                           proc[p].user, now),
               screenings |-> screenings]
    /\ proc' = [proc EXCEPT ![p].pc = "cn_commit",
                   ![p].booked = Cardinality(CancelMatch(bookings, proc[p].id,
                                                         proc[p].user))]
    /\ UNCHANGED <<screenings, bookings, ret>>

\* conn.commit(); return cur.rowcount > 0
cn_commit(p) ==
    /\ proc[p].pc = "cn_commit"
    /\ txn.owner = p
    /\ bookings' = txn.bookings
    /\ txn' = NoTxn
    /\ proc' = Observe(Done(p, IF proc[p].booked > 0 THEN "True" ELSE "False"),
                        screenings, txn.bookings)
    /\ UNCHANGED <<screenings, ret>>

\* the caller takes the returned value (or the raised error)
Return(p) ==
    /\ proc[p].pc = "done"
    /\ proc' = [proc EXCEPT ![p] = IdleProc]
    /\ UNCHANGED <<screenings, bookings, ret, txn>>

\* delete_screening is called;
\* SELECT COUNT(*) FROM bookings WHERE screening_id = ?
ds_count(p, s) ==
    /\ proc[p].pc = "idle"
    /\ LET called == [IdleProc EXCEPT !.op = "delete_screening", !.id = s,
                         !.overlap = {q \in Procs \ {p} : Running(q)}]
       IN  proc' = [proc EXCEPT ![p] =
                IF CountBookings(bookings, s) > 0
                THEN [called EXCEPT !.pc = "done", !.res = "has_bookings"]
                ELSE [called EXCEPT !.pc = "ds_delete"]]
    /\ UNCHANGED <<screenings, bookings, ret, txn>>

\* DELETE FROM screenings WHERE id = ?; cur.rowcount in booked
ds_delete(p) ==
    /\ proc[p].pc = "ds_delete"
    /\ txn.owner = 0
    /\ txn' = [owner |-> p, bookings |-> bookings,
               screenings |-> DeleteScreening(screenings, proc[p].id)]
    /\ proc' = [proc EXCEPT ![p].pc = "ds_commit",
                   ![p].booked = Cardinality(SelectScreening(screenings,
                                                             proc[p].id))]
    /\ UNCHANGED <<screenings, bookings, ret>>

\* conn.commit(); return "not_found" if cur.rowcount == 0 else "ok"
ds_commit(p) ==
    /\ proc[p].pc = "ds_commit"
    /\ txn.owner = p
    /\ screenings' = txn.screenings
    /\ txn' = NoTxn
    /\ proc' = Observe(Done(p, IF proc[p].booked = 0 THEN "not_found" ELSE "ok"),
                        txn.screenings, bookings)
    /\ UNCHANGED <<bookings, ret>>

\* add_screening is called
as_call(p, d, t, c) ==
    /\ proc[p].pc = "idle"
    /\ NextScreeningId(screenings) <= MaxScreeningId
    /\ proc' = [proc EXCEPT ![p] =
                 [IdleProc EXCEPT !.pc = "as_insert", !.op = "add_screening",
                     !.date = d, !.title = t, !.capacity = c,
                     !.overlap = {q \in Procs \ {p} : Running(q)}]]
    /\ UNCHANGED <<screenings, bookings, ret, txn>>

\* INSERT INTO screenings (date, title, capacity); cur.lastrowid in id
as_insert(p) ==
    /\ proc[p].pc = "as_insert"
    /\ txn.owner = 0
    /\ NextScreeningId(screenings) <= MaxScreeningId
    /\ txn' = [owner |-> p, bookings |-> bookings,
               screenings |-> InsertScreening(screenings, proc[p].date,
                                              proc[p].title, proc[p].capacity)]
    /\ proc' = [proc EXCEPT ![p].pc = "as_commit",
                   ![p].id = NextScreeningId(screenings)]
    /\ UNCHANGED <<screenings, bookings, ret>>

\* conn.commit(); return cur.lastrowid
as_commit(p) ==
    /\ proc[p].pc = "as_commit"
    /\ txn.owner = p
    /\ screenings' = txn.screenings
    /\ txn' = NoTxn
    /\ proc' = Observe(Done(p, "ok"), txn.screenings, bookings)
    /\ UNCHANGED <<bookings, ret>>

\* get_screenings_with_stats is called;
\* SELECT id, date, title, capacity FROM screenings ORDER BY id; fetchall()
gs_select(p) ==
    /\ proc[p].pc = "idle"
    /\ LET rows == SelectScreenings(screenings)
           called == [IdleProc EXCEPT !.op = "get_screenings_with_stats",
                         !.rows = rows,
                         !.seen = {ListingOfState(screenings, bookings)},
                         !.overlap = {q \in Procs \ {p} : Running(q)}]
       IN  proc' = [proc EXCEPT ![p] =
                IF Len(rows) = 0
                THEN [called EXCEPT !.pc = "done", !.res = "list"]
                ELSE [called EXCEPT !.pc = "gs_count"]]
    /\ UNCHANGED <<screenings, bookings, ret, txn>>

\* one turn of the loop over rows: SELECT COUNT(*) ... canceled_at IS NULL;
\* result.append(ScreeningInfo(...)); after the last row: return result
gs_count(p) ==
    /\ proc[p].pc = "gs_count"
    /\ LET row == proc[p].rows[Len(proc[p].out) + 1]
           out == Append(proc[p].out,
                         ScreeningInfo(row, CountActive(bookings, row.id)))
       IN  proc' = [proc EXCEPT ![p].out = out,
                       ![p].pc = IF Len(out) = Len(proc[p].rows)
                                 THEN "done" ELSE "gs_count",
                       ![p].res = IF Len(out) = Len(proc[p].rows)
                                  THEN "list" ELSE "none"]
    /\ UNCHANGED <<screenings, bookings, ret, txn>>

NextConc ==
    \E p \in Procs :
        \/ \E s \in ScreeningIds, u \in Users : cb_select_screening(p, s, u)
        \/ cb_select_active(p)
        \/ cb_count(p)
        \/ \E now \in Times : cb_insert(p, now)
        \/ write_busy(p)
        \/ cb_commit(p)
        \/ \E b \in BookingIds, u \in Users : cn_call(p, b, u)
        \/ \E now \in Times : cn_update(p, now)
        \/ cn_commit(p)
        \/ Return(p)

SpecConc == Init /\ [][NextConc]_vars

\* Bookings made while the administrator adds and deletes screenings.
NextAdmin ==
    \E p \in Procs :
        \/ \E s \in ScreeningIds, u \in Users : cb_select_screening(p, s, u)
        \/ cb_select_active(p)
        \/ cb_count(p)
        \/ \E now \in Times : cb_insert(p, now)
        \/ write_busy(p)
        \/ cb_commit(p)
        \/ \E s \in ScreeningIds : ds_count(p, s)
        \/ ds_delete(p)
        \/ ds_commit(p)
        \/ \E d \in AdminDates, t \in AdminTitles, c \in Capacities :
              as_call(p, d, t, c)
        \/ as_insert(p)
        \/ as_commit(p)
        \/ Return(p)

SpecAdmin == Init /\ [][NextAdmin]_vars

\* A listing taken while bookings are made and canceled and screenings are
\* deleted.  One caller lists and, between its listings, adds screenings;
\* the other callers book, cancel and delete.
Lister == Min(Procs)
Writers == Procs \ {Lister}

NextList ==
    \/ gs_select(Lister)
    \/ gs_count(Lister)
    \/ \E d \in AdminDates, t \in AdminTitles, c \in Capacities :
          as_call(Lister, d, t, c)
    \/ as_insert(Lister)
    \/ as_commit(Lister)
    \/ \E p \in Writers :
        \/ \E s \in ScreeningIds, u \in Users : cb_select_screening(p, s, u)
        \/ cb_select_active(p)
        \/ cb_count(p)
        \/ \E now \in Times : cb_insert(p, now)
        \/ cb_commit(p)
        \/ \E b \in BookingIds, u \in Users : cn_call(p, b, u)
        \/ \E now \in Times : cn_update(p, now)
        \/ cn_commit(p)
        \/ \E s \in ScreeningIds : ds_count(p, s)
        \/ ds_delete(p)
        \/ ds_commit(p)
    \/ \E p \in Procs :
        \/ write_busy(p)
        \/ Return(p)

SpecList == Init /\ [][NextList]_vars

\* ============================================================ properties
\* Read off the tables directly, not through the statement operators.
ActiveRows(bk, s) == {b \in bk : b.screening_id = s /\ b.canceled_at = NULL}
ActiveRowsOf(bk, s, u) == {b \in ActiveRows(bk, s) : b.user_id = u}
CanceledRowsOf(bk, s, u) ==
    {b \in bk : b.screening_id = s /\ b.user_id = u /\ b.canceled_at # NULL}
RowsOfScreening(bk, s) == {b \in bk : b.screening_id = s}
WithinCapacity(sc, bk, s) ==
    s \in DOMAIN sc => Cardinality(ActiveRows(bk, s)) <= sc[s].capacity

\* C1: a create_booking or cancel_booking call that runs to completion on
\* tables where a screening has at most `capacity` active rows leaves
\* tables where that screening still has at most `capacity` active rows.
C1_OccupancyWithinCapacity ==
    [][\A s \in ScreeningIds :
        (/\ ret'.op \in {"create_booking", "cancel_booking"}
         /\ WithinCapacity(screenings, bookings, s))
        => WithinCapacity(screenings', bookings', s)]_vars

\* a booking was refused on a screening filled exactly to its capacity
C1_Witness ==
    /\ ret.op = "create_booking"
    /\ ret.res = "full"
    /\ ret.id \in DOMAIN screenings
    /\ screenings[ret.id].capacity >= 1
    /\ Cardinality(ActiveRows(bookings, ret.id)) = screenings[ret.id].capacity

C8_CancelExactlyOwnActive ==
    [][ret'.op = "cancel_booking" =>
        LET hit == {r \in bookings : /\ r.id = ret'.id
                                     /\ r.user_id = ret'.user
                                     /\ r.canceled_at = NULL}
        IN  /\ (ret'.res = "True") <=> (hit # {})
            /\ ret'.res \in {"True", "False"}
            /\ hit # {} =>
                 /\ bookings \ hit = bookings' \ {r \in bookings' : r.id = ret'.id}
                 /\ \E r \in hit, t \in Times :
                       {x \in bookings' : x.id = ret'.id}
                           = {[r EXCEPT !.canceled_at = t]}]_vars

\* a cancel returned True and its row is now canceled
C8_Witness ==
    /\ ret.op = "cancel_booking"
    /\ ret.res = "True"
    /\ \E r \in bookings :
          r.id = ret.id /\ r.user_id = ret.user /\ r.canceled_at # NULL
    /\ \E r \in bookings : r.id # ret.id /\ r.canceled_at = NULL

\* C9: cancel_booking(b, u) with b absent, owned by another user or already
\* canceled returns False and changes no booking row and no screening.
C9_CancelRefusedChangesNothing ==
    [][(/\ ret'.op = "cancel_booking"
        /\ \/ ~ \E r \in bookings : r.id = ret'.id
           \/ \E r \in bookings : r.id = ret'.id /\ r.user_id # ret'.user
           \/ \E r \in bookings : r.id = ret'.id /\ r.canceled_at # NULL)
       => (/\ ret'.res = "False"
           /\ bookings' = bookings
           /\ screenings' = screenings)]_vars

\* a cancel of another user's active booking returned False; it stays active
C9_Witness ==
    /\ ret.op = "cancel_booking"
    /\ ret.res = "False"
    /\ \E r \in bookings :
          r.id = ret.id /\ r.user_id # ret.user /\ r.canceled_at = NULL

\* C10: delete_screening on a screening that some booking row references,
\* active or canceled, returns "has_bookings" and changes no row.
C10_DeleteGuardedByHistory ==
    [][(/\ ret'.op = "delete_screening"
        /\ ret'.id \in DOMAIN screenings
        /\ RowsOfScreening(bookings, ret'.id) # {})
       => (/\ ret'.res = "has_bookings"
           /\ screenings' = screenings
           /\ bookings' = bookings)]_vars

\* the delete was refused for a screening whose only bookings are canceled
C10_Witness ==
    /\ ret.op = "delete_screening"
    /\ ret.res = "has_bookings"
    /\ ret.id \in DOMAIN screenings
    /\ RowsOfScreening(bookings, ret.id) # {}
    /\ ActiveRows(bookings, ret.id) = {}

\* C4: after a cancel, create_booking for the same screening by the same
\* user, with a free seat, returns "ok" and adds a row with a fresh id; the
\* canceled row stays, still canceled.
C4_RebookAfterCancel ==
    [][(/\ ret.op = "cancel_booking"
        /\ ret.res = "True"
        /\ ret'.op = "create_booking"
        /\ ret'.user = ret.user
        /\ ret'.id \in DOMAIN screenings
        /\ \E r \in CanceledRowsOf(bookings, ret'.id, ret'.user) : r.id = ret.id
        /\ Cardinality(ActiveRows(bookings, ret'.id))
              < screenings[ret'.id].capacity)
       => (/\ ret'.res = "ok"
           /\ bookings \subseteq bookings'
           /\ \E n \in bookings' \ bookings :
                 /\ n.id \notin {r.id : r \in bookings}
                 /\ n.screening_id = ret'.id
                 /\ n.user_id = ret'.user
                 /\ n.canceled_at = NULL)]_vars

\* C6: create_booking ends by returning one of its four outcome values and
\* delete_screening one of its three; nothing is raised instead.
C6_OutcomesAreValues ==
    /\ ret.op = "create_booking"
          => ret.res \in {"no_screening", "already", "full", "ok"}
    /\ ret.op = "delete_screening"
          => ret.res \in {"ok", "has_bookings", "not_found"}

\* C7: create_booking(s, u) answers "no_screening" if s does not exist, else
\* "already" if u has an active row on s, else "full" if the active rows of s
\* are >= its capacity, else it adds exactly one active row and answers "ok";
\* and it adds a row in no other case.
C7_DecisionOrder ==
    [][ret'.op = "create_booking" =>
        LET s == ret'.id
            u == ret'.user
        IN  IF s \notin DOMAIN screenings
            THEN ret'.res = "no_screening" /\ bookings' = bookings
            ELSE IF ActiveRowsOf(bookings, s, u) # {}
            THEN ret'.res = "already" /\ bookings' = bookings
            ELSE IF Cardinality(ActiveRows(bookings, s)) >= screenings[s].capacity
            THEN ret'.res = "full" /\ bookings' = bookings
            ELSE /\ ret'.res = "ok"
                 /\ bookings \subseteq bookings'
                 /\ Cardinality(bookings' \ bookings) = 1
                 /\ \A n \in bookings' \ bookings :
                       /\ n.screening_id = s
                       /\ n.user_id = u
                       /\ n.canceled_at = NULL]_vars

\* two calls whose executions overlapped in time
Concurrent(p, q) == q \in proc[p].overlap \/ p \in proc[q].overlap

\* C2: two create_booking calls of two different users for one screening,
\* run concurrently when the screening has exactly one free seat and neither
\* hit a storage failure, end with one "ok" and one "full", and the active
\* rows of the screening do not exceed its capacity.
C2_LastSeatOneWinner ==
    \A p \in Procs : \A q \in Procs \ {p} :
        (/\ proc[p].pc = "done" /\ proc[q].pc = "done"
         /\ proc[p].op = "create_booking" /\ proc[q].op = "create_booking"
         /\ proc[p].id = proc[q].id
         /\ proc[p].user # proc[q].user
         /\ Concurrent(p, q)
         /\ proc[p].free0 = 1 /\ proc[q].free0 = 1
         /\ proc[p].res # "OperationalError"
         /\ proc[q].res # "OperationalError")
        => (/\ {proc[p].res, proc[q].res} = {"ok", "full"}
            /\ Cardinality(ActiveRows(bookings, proc[p].id))
                  <= screenings[proc[p].id].capacity)

\* C3: no (screening_id, user_id) pair has two rows with canceled_at null,
\* in the committed table and in the table of an open transaction.
C3_OneActiveRowPerPair ==
    \A bk \in {bookings} \cup (IF txn.owner # 0 THEN {txn.bookings} ELSE {}) :
        \A s \in ScreeningIds, u \in Users :
            Cardinality(ActiveRowsOf(bk, s, u)) <= 1

\* two overlapping create_booking calls of one user for one screening both
\* got past the "already" check; one inserted, the other was stopped
C3_Witness ==
    \E p \in Procs : \E q \in Procs \ {p} :
        /\ proc[p].pc = "done" /\ proc[q].pc = "done"
        /\ proc[p].op = "create_booking" /\ proc[q].op = "create_booking"
        /\ proc[p].id = proc[q].id
        /\ proc[p].user = proc[q].user
        /\ Concurrent(p, q)
        /\ proc[p].res = "ok"
        /\ proc[q].res = "IntegrityError"
        /\ Cardinality(ActiveRowsOf(bookings, proc[p].id, proc[p].user)) = 1

ListedFor(sc, bk, s) ==
    LET l == get_screenings_with_stats_result(sc, bk)
    IN  {l[i] : i \in {j \in 1..Len(l) : l[j].id = s}}

\* C13: update_screening that leaves an existing screening with a capacity
\* below its number of active bookings returns True and changes no booking
\* row, and the listing then shows free_places = 0 for it; a create_booking
\* on it right after, by a user with no active booking there, returns "full".
C13_ShrinkBelowOccupancy ==
    [][/\ (/\ ret'.op = "update_screening"
           /\ ret'.id \in DOMAIN screenings
           /\ screenings'[ret'.id].capacity
                 < Cardinality(ActiveRows(bookings, ret'.id)))
          => (/\ ret'.res = "True"
              /\ bookings' = bookings
              /\ ListedFor(screenings', bookings', ret'.id) # {}
              /\ \A e \in ListedFor(screenings', bookings', ret'.id) :
                    free_places(e) = 0)
       /\ (/\ ret.op = "update_screening"
           /\ ret.res = "True"
           /\ screenings[ret.id].capacity
                 < Cardinality(ActiveRows(bookings, ret.id))
           /\ ret'.op = "create_booking"
           /\ ret'.id = ret.id
           /\ ActiveRowsOf(bookings, ret.id, ret'.user) = {})
          => (ret'.res = "full" /\ bookings' = bookings)]_vars

\* a capacity was set below the one or more active bookings of a screening
C13_Witness ==
    /\ ret.op = "update_screening"
    /\ ret.res = "True"
    /\ ret.id \in DOMAIN screenings
    /\ Cardinality(ActiveRows(bookings, ret.id)) >= 1
    /\ screenings[ret.id].capacity < Cardinality(ActiveRows(bookings, ret.id))
    /\ screenings[ret.id].capacity >= 0

\* C14: right after a successful cancel_booking that frees one seat of a
\* screening that was filled exactly to its capacity, the listing shows
\* exactly one free place for it, and the next create_booking on it by
\* another user who holds no active booking there (whom the full screening
\* refused) returns "ok" and adds that user's active row.
C14_CancelFreesSeat ==
    [][\A s \in DOMAIN screenings :
        (/\ ret.op = "cancel_booking"
         /\ ret.res = "True"
         /\ \E r \in bookings : r.id = ret.id /\ r.screening_id = s
         /\ screenings[s].capacity >= 1
         /\ Cardinality(ActiveRows(bookings, s)) = screenings[s].capacity - 1)
        => (/\ ListedFor(screenings, bookings, s) # {}
            /\ \A e \in ListedFor(screenings, bookings, s) : free_places(e) = 1
            /\ (/\ ret'.op = "create_booking"
                /\ ret'.id = s
                /\ ret'.user # ret.user
                /\ ActiveRowsOf(bookings, s, ret'.user) = {})
               => (/\ ret'.res = "ok"
                   /\ ActiveRowsOf(bookings', s, ret'.user) # {}))]_vars

\* The same scenario restricted to a refused user who has no row at all on
\* the screening, canceled ones included: the freed seat is listed and the
\* user gets it.
C14_FreshUserOnly ==
    [][\A s \in DOMAIN screenings :
        (/\ ret.op = "cancel_booking"
         /\ ret.res = "True"
         /\ \E r \in bookings : r.id = ret.id /\ r.screening_id = s
         /\ screenings[s].capacity >= 1
         /\ Cardinality(ActiveRows(bookings, s)) = screenings[s].capacity - 1)
        => (/\ ListedFor(screenings, bookings, s) # {}
            /\ \A e \in ListedFor(screenings, bookings, s) : free_places(e) = 1
            /\ (/\ ret'.op = "create_booking"
                /\ ret'.id = s
                /\ ~ \E r \in bookings :
                       r.screening_id = s /\ r.user_id = ret'.user)
               => (/\ ret'.res = "ok"
                   /\ ActiveRowsOf(bookings', s, ret'.user) # {}))]_vars

\* C16: in every reachable state every screening has capacity >= 0,
\* whatever integer capacities add_screening and update_screening are
\* called with.
C16_CapacityNonNegative ==
    \A s \in DOMAIN screenings : screenings[s].capacity >= 0

\* C17: a booking row's only transition is Active -> Canceled: every step
\* keeps every booking row, with the same id, screening_id, user_id and
\* created_at; a non-null canceled_at is never changed again (neither back
\* to null nor to another time).
C17_OnlyActiveToCanceled ==
    [][\A r \in bookings :
        \E n \in bookings' :
            /\ n.id = r.id
            /\ n.screening_id = r.screening_id
            /\ n.user_id = r.user_id
            /\ n.created_at = r.created_at
            /\ r.canceled_at # NULL => n.canceled_at = r.canceled_at
            /\ \A m \in bookings' : m.id = r.id => m = n]_vars

\* cancel_booking was called by the owner on a row canceled at an earlier
\* time, and the row still carries that earlier time
C17_Witness ==
    /\ ret.op = "cancel_booking"
    /\ ret.res = "False"
    /\ \E r \in bookings : /\ r.id = ret.id
                           /\ r.user_id = ret.user
                           /\ r.canceled_at # NULL
                           /\ r.canceled_at < MaxTime

\* C18: the listing has exactly one entry per existing screening, in
\* strictly ascending id order; each entry carries the screening's date,
\* title and capacity, booked is the number of its rows with canceled_at
\* null, and free_places is max(capacity - booked, 0), never negative.
C18_ListingExact ==
    [][ret'.op = "get_screenings_with_stats" =>
        LET rows == ret'.rows IN
        /\ {rows[i].id : i \in 1..Len(rows)} = DOMAIN screenings
        /\ Len(rows) = Cardinality(DOMAIN screenings)
        /\ \A i \in 1..Len(rows) : \A j \in 1..Len(rows) :
               i < j => rows[i].id < rows[j].id
        /\ \A i \in 1..Len(rows) :
               LET e == rows[i]
                   n == Cardinality(ActiveRows(bookings, e.id)) IN
               /\ e.date = screenings[e.id].date
               /\ e.title = screenings[e.id].title
               /\ e.capacity = screenings[e.id].capacity
               /\ e.booked = n
               /\ free_places(e) >= 0
               /\ free_places(e) >= e.capacity - n
               /\ free_places(e) \in {0, e.capacity - n}]_vars

\* a listing of two screenings where one holds more active bookings than
\* its capacity (so the clamp acts) and a canceled row is not counted
C18_Witness ==
    /\ ret.op = "get_screenings_with_stats"
    /\ Len(ret.rows) = 2
    /\ \E i \in 1..Len(ret.rows) : ret.rows[i].booked > ret.rows[i].capacity
    /\ \E r \in bookings : r.canceled_at # NULL

\* C20: in every reachable state, whatever order of equal rows the engine
\* picks, get_all_active_bookings returns exactly the booking rows with
\* canceled_at null, one output row each, ordered by screening id and then
\* by creation time, so the rows of one screening are contiguous.
C20_ExactlyActiveRows ==
    \A f \in OrderByScreeningCreated(JoinActive(screenings, bookings)) :
        /\ {f[i] : i \in 1..Len(f)} = {b \in bookings : b.canceled_at = NULL}
        /\ Len(f) = Cardinality({b \in bookings : b.canceled_at = NULL})
        /\ \A i \in 1..Len(f) : \A j \in 1..Len(f) :
              i < j =>
                /\ f[i].screening_id <= f[j].screening_id
                /\ f[i].screening_id = f[j].screening_id
                     => /\ f[i].created_at <= f[j].created_at
                        /\ \A k \in i..j :
                              f[k].screening_id = f[i].screening_id

\* The same for calls made while no other call is under way, stated on the
\* returned rows (the row's user and creation time with its screening's
\* date and title).
C20_ActiveBookingsOrdered ==
    [][ret'.op = "get_all_active_bookings" =>
        LET out == ret'.rows
            act == {b \in bookings : b.canceled_at = NULL}
            n == Len(out)
        IN  /\ n = Cardinality(act)
            /\ \E f \in [1..n -> act] :
                 /\ \A i \in 1..n : \A j \in 1..n : i # j => f[i] # f[j]
                 /\ \A i \in 1..n :
                      /\ f[i].screening_id \in DOMAIN screenings
                      /\ out[i].user_id = f[i].user_id
                      /\ out[i].created_at = f[i].created_at
                      /\ out[i].date = screenings[f[i].screening_id].date
                      /\ out[i].title = screenings[f[i].screening_id].title
                 /\ \A i \in 1..n : \A j \in 1..n :
                      i < j =>
                        /\ f[i].screening_id <= f[j].screening_id
                        /\ f[i].screening_id = f[j].screening_id
                             => f[i].created_at <= f[j].created_at
                        /\ f[i].screening_id = f[j].screening_id
                             => \A k \in i..j :
                                  f[k].screening_id = f[i].screening_id]_vars

\* two active bookings of different screenings were returned, the one of
\* the lower screening id first although it was created later
C20_OrderedWitness ==
    /\ ret.op = "get_all_active_bookings"
    /\ Len(ret.rows) = 2
    /\ ret.rows[1].created_at > ret.rows[2].created_at
    /\ \E a \in bookings : \E b \in bookings :
          /\ a.canceled_at = NULL
          /\ b.canceled_at = NULL
          /\ a.screening_id < b.screening_id
          /\ a.created_at > b.created_at

\* C11: in every reachable state, also while the steps of create_booking
\* and delete_screening calls interleave, every booking row's screening_id
\* is the id of a screening that exists: no screening with a booking row
\* has been deleted.
C11_NoBookingWithoutScreening ==
    \A b \in bookings : b.screening_id \in DOMAIN screenings

\* C15: when add_screening(date, title, capacity) with capacity >= 0
\* returns the id N, no screening had the id N before, and the listing of
\* the tables it leaves has an entry with id = N, the given capacity,
\* booked = 0 and free_places = capacity; also after earlier
\* delete_screening calls and next to concurrent create_booking calls.
C15_AddedScreeningIsNewAndEmpty ==
    [][\A p \in Procs :
        (/\ proc[p].pc = "as_commit"
         /\ proc'[p].pc = "done"
         /\ proc[p].capacity >= 0)
        => (/\ proc'[p].res = "ok"
            /\ proc'[p].id \notin DOMAIN screenings
            /\ \E e \in ListedFor(screenings', bookings', proc'[p].id) :
                  /\ e.capacity = proc[p].capacity
                  /\ e.booked = 0
                  /\ free_places(e) = proc[p].capacity)]_vars

\* C19: the list a get_screenings_with_stats call returns, also when
\* create_booking, cancel_booking and delete_screening calls run next to
\* it, is the listing of one single committed state of the tables that
\* existed between the call's start and its return.
C19_ListingIsOneState ==
    \A p \in Procs :
        (proc[p].op = "get_screenings_with_stats" /\ proc[p].pc = "done")
            => proc[p].out \in proc[p].seen

\* C21: init_db called in any reachable state adds exactly the seed
\* screenings whose id is absent, with their seed columns; it changes no
\* screening row that exists (an edited one included) and no booking row;
\* an init_db call right after an init_db call changes nothing.
C21_SeedingIdempotent ==
    [][ret'.op = "init_db" =>
        /\ bookings' = bookings
        /\ DOMAIN screenings' = DOMAIN screenings \cup (1..NumSeed)
        /\ \A s \in DOMAIN screenings : screenings'[s] = screenings[s]
        /\ \A s \in (1..NumSeed) \ DOMAIN screenings :
              /\ screenings'[s].date = SeedDates[s]
              /\ screenings'[s].title = SeedTitles[s]
              /\ screenings'[s].capacity = SeedCapacity
        /\ ret.op = "init_db" => screenings' = screenings]_vars

\* init_db has run on a table whose seed screening had been edited and
\* booked: the edited row and the booking are still there
C21_Witness ==
    /\ ret.op = "init_db"
    /\ \E s \in (1..NumSeed) \cap DOMAIN screenings :
          /\ screenings[s].title # SeedTitles[s]
          /\ \E b \in bookings : b.screening_id = s

\* C22: create_booking never changes a screening row; when it returns "ok"
\* it adds exactly one booking row, with a new id, the given screening_id
\* and user_id and canceled_at null, and changes no other booking row; with
\* any other outcome ("no_screening", "already", "full", or an error raised
\* by the INSERT) the booking rows are unchanged too.
C22_OnlyTheInsert ==
    [][ret'.op = "create_booking" =>
        /\ screenings' = screenings
        /\ ret'.res = "ok" =>
              /\ bookings \subseteq bookings'
              /\ Cardinality(bookings' \ bookings) = 1
              /\ \A r \in bookings' \ bookings :
                    /\ r.screening_id = ret'.id
                    /\ r.user_id = ret'.user
                    /\ r.canceled_at = NULL
                    /\ \A o \in bookings : o.id # r.id
        /\ ret'.res # "ok" => bookings' = bookings]_vars

\* a booking was added next to an older row of another user, on a
\* screening that still has its capacity
C22_Witness ==
    /\ ret.op = "create_booking"
    /\ ret.res = "ok"
    /\ Cardinality(bookings) = 2
    /\ \E r \in bookings : /\ r.screening_id = ret.id
                           /\ r.user_id = ret.user
                           /\ r.canceled_at = NULL
    /\ \E o \in bookings : o.user_id # ret.user
    /\ ret.id \in DOMAIN screenings
    /\ screenings[ret.id].capacity >= 1

\* C23: in every reachable state, in the committed table and in the table
\* of an open transaction, each (screening_id, user_id) pair has at most one
\* booking row, active or canceled: a user who once booked a screening
\* never gets a second row on it.
C23_OneRowPerPair ==
    \A bk \in {bookings} \cup (IF txn.owner # 0 THEN {txn.bookings} ELSE {}) :
        \A s \in ScreeningIds, u \in Users :
            Cardinality({b \in bk : b.screening_id = s /\ b.user_id = u}) <= 1

\* a user whose only row on a screening is canceled called create_booking
\* for it again; the INSERT was refused and the canceled row is still the
\* pair's only row
C23_Witness ==
    \E p \in Procs :
        /\ proc[p].pc = "done"
        /\ proc[p].op = "create_booking"
        /\ proc[p].res = "IntegrityError"
        /\ CanceledRowsOf(bookings, proc[p].id, proc[p].user) # {}
        /\ Cardinality({b \in bookings : /\ b.screening_id = proc[p].id
                                         /\ b.user_id = proc[p].user}) = 1

\* C24: after delete_screening has returned "ok" for a seed id, the next
\* init_db call leaves a screening with that id that carries the seed's
\* date, title and capacity.
C24_DeletedSeedComesBack ==
    [][ret'.op = "init_db" =>
        \A s \in ret'.gone :
            /\ s \in DOMAIN screenings'
            /\ screenings'[s].date = SeedDates[s]
            /\ screenings'[s].title = SeedTitles[s]
            /\ screenings'[s].capacity = SeedCapacity]_vars

\* C24 as amended: after delete_screening has returned "ok" for a seed id,
\* the next init_db call re-creates the seed screening with its seed date,
\* title and capacity if no screening has that id by then; if one has
\* (add_screening has given the id out again), init_db leaves that
\* screening as it is.
C24_DeletedSeedComesBackUnlessReused ==
    [][ret'.op = "init_db" =>
        \A s \in ret'.gone :
            /\ s \in DOMAIN screenings'
            /\ s \notin DOMAIN screenings =>
                  /\ screenings'[s].date = SeedDates[s]
                  /\ screenings'[s].title = SeedTitles[s]
                  /\ screenings'[s].capacity = SeedCapacity
            /\ s \in DOMAIN screenings => screenings'[s] = screenings[s]]_vars

\* init_db has brought back a deleted seed screening next to a screening
\* an admin had added
C24_Witness ==
    /\ ret.op = "init_db"
    /\ \E s \in ret.gone :
          /\ s \in DOMAIN screenings
          /\ screenings[s].date = SeedDates[s]
          /\ screenings[s].title = SeedTitles[s]
          /\ screenings[s].capacity = SeedCapacity
    /\ \E a \in DOMAIN screenings : a \notin 1..NumSeed

TypeOK ==
    /\ DOMAIN screenings \subseteq ScreeningIds
    /\ \A b \in bookings : b.id \in BookingIds
====
